---- MODULE Spec2Model ----
(***************************************************************************)
(* The cache-aside layer of the MCP gateway                                *)
(* (mcp-server: getCachedOrFetch, invalidateCache, the redis handle and    *)
(* the user / order route handlers that use them).                         *)
(*                                                                         *)
(* One request slot per concurrent handler invocation.  A handler is cut   *)
(* at its awaits: every action is one continuation of the event loop, from *)
(* the arrival of the awaited reply up to the next command it issues.  The *)
(* reply of the persistent store and of the cache backend is taken at the  *)
(* moment the backend executes the command.                                *)
(***************************************************************************)
EXTENDS Integers, Sequences, FiniteSets, TLC

VARIABLES
  phase,    \* position of the module's top-level startup code
  redis,    \* the module-level handle `redis`: "client" or "null"
  pingOk,   \* history: the startup ping resolved
  users,    \* persistent store, table users: id -> <<>> (no row) or <<updated_at>>
  orders,   \* persistent store, table orders: the user_id of every order row
  nextId,   \* the next identifier nanoid() hands out
  clock,    \* the store's logical time: number of committed writes
  cache,    \* the cache backend: key -> Nil or [val, ttl], with the history at, src
  req,      \* request slots: the local state of each handler invocation
  started,  \* number of requests accepted so far
  health,   \* GET /health: the local state of each invocation of the probe
  derive,   \* cache-key derivation: two requests and the keys derived for them
  client,   \* the generated ApiClient: its configuration and one request() call
  metrics   \* MonitoringService: the series kept for each metric name

gateway == <<phase, redis, pingOk, users, orders, nextId, clock, cache, req, started>>
others == <<health, derive, client, metrics>>
vars == <<gateway, others>>

-----------------------------------------------------------------------------
(* Bounds of the model *)
NumProcs == 2
MaxUsers == 2
MaxRequests == 2

(* Program constants *)
DefaultTtl == 300
OrdersTtl == 60

Procs == 1..NumProcs
Ids == 1..MaxUsers

-----------------------------------------------------------------------------
(* Values *)
Nil == <<>>
None == <<"none">>
Ok(d) == <<"ok", d>>
Err(m) == <<"error", m>>
IsOk(r) == r[1] = "ok"
IsErr(r) == r[1] = "error"

(* Cache keys and invalidation patterns *)
UsersAllKey == <<"users", "all">>
UserKey(id) == <<"user", id>>
OrdersKey(q) == <<"orders", q>>
NoFilter == <<"nofilter">>
OrderQueries == {NoFilter}
Keys == {UsersAllKey} \cup {UserKey(i) : i \in Ids} \cup {OrdersKey(q) : q \in OrderQueries}
NoKey == <<"nokey", "">>

UsersGlob == [cls |-> "users", glob |-> TRUE, arg |-> 0]
UserPattern(id) == [cls |-> "user", glob |-> FALSE, arg |-> id]

\* redis KEYS pattern: a trailing * matches any rest, otherwise the key itself
Matches(pat, k) == pat.cls = k[1] /\ (pat.glob \/ pat.arg = k[2])

(* Serialisation of a payload for the cache, and back *)
JSONstringify(d) == <<"json", d>>
JSONparse(s) == s[2]

ReadOps == {"listUsers", "getUser", "listOrders"}
WriteOps == {"create", "update", "delete"}

KeyOf(op, id) ==
  CASE op = "listUsers" -> UsersAllKey
    [] op = "getUser" -> UserKey(id)
    [] op = "listOrders" -> OrdersKey(NoFilter)
    [] OTHER -> NoKey

TtlOf(op) == IF op = "listOrders" THEN OrdersTtl ELSE DefaultTtl

\* what the fetcher of a read handler returns from the store as it is now
Fetcher(op, id) ==
  CASE op = "listUsers" -> Ok(users)
    [] op = "getUser" -> IF users[id] = <<>> THEN Err("no rows") ELSE Ok(users[id])
    [] op = "listOrders" -> Ok([data |-> orders, total |-> Cardinality(orders)])
    [] OTHER -> None

\* (variant: the list pattern users:* is forgotten in PATCH and DELETE)
PatternsOfWithoutList(op, id) ==
  CASE op = "create" -> <<UsersGlob>>
    [] op \in {"update", "delete"} -> <<UserPattern(id)>>
    [] OTHER -> <<>>

\* (variant: PATCH and DELETE invalidate the list only, not user:{id})
PatternsOfListOnly(op, id) ==
  CASE op \in WriteOps -> <<UsersGlob>>
    [] OTHER -> <<>>

\* (variant: DELETE also invalidates the order lists)
PatternsOfWithOrders(op, id) ==
  CASE op = "create" -> <<UsersGlob>>
    [] op = "update" -> <<UserPattern(id), UsersGlob>>
    [] op = "delete" -> <<UserPattern(id), UsersGlob, [cls |-> "orders", glob |-> TRUE, arg |-> 0]>>
    [] OTHER -> <<>>

\* the patterns a write handler passes to invalidateCache, in order
PatternsOf(op, id) ==
  CASE op = "create" -> <<UsersGlob>>
    [] op \in {"update", "delete"} -> <<UserPattern(id), UsersGlob>>
    [] OTHER -> <<>>

Idle ==
  [pc |-> "idle", op |-> "none", id |-> 0, key |-> NoKey, ttl |-> 0,
   direct |-> FALSE, data |-> Nil, status |-> 0, result |-> None,
   inv |-> <<>>, keys |-> {},
   \* history of the invocation
   startNull |-> FALSE,  \* getCachedOrFetch was entered with the handle null
   seen |-> None,        \* what the cache lookup answered: <<"miss">> or <<"hit", payload>>
   fetched |-> None,     \* what the fetcher returned or threw
   fetchedAt |-> 0,      \* the store's time when the fetcher read it
   commitAt |-> 0,       \* the store's time once the write committed, else 0
   solo |-> TRUE,        \* no other invocation was in flight meanwhile
   fault |-> "none",     \* "cache": a cache command failed; "TypeError": null handle used
   nFetch |-> 0, nGet |-> 0, nSet |-> 0, nKeys |-> 0, nDel |-> 0,
   nNull |-> 0]          \* invalidateCache calls entered with the handle null

InFlight(r) == r.pc \notin {"idle", "done"}

-----------------------------------------------------------------------------
(* Startup *)
\* the locals of an invocation of the health probe
HealthIdle ==
  [pc |-> "idle", dbStatus |-> "none", cacheStatus |-> "none", status |-> 0,
   body |-> Nil,
   \* history of the invocation
   handle |-> "none",   \* the handle as `if (redis)` found it
   pinged |-> "none"]   \* how the probe's ping settled: "ok" or "fail"

\* MonitoringService as constructed: `metrics` is an empty Map (a name without
\* a series is a name whose series is empty: collect never leaves one empty)
MetricNames == {"http.request", "http.response_time"}
NoMetrics ==
  [series |-> [n \in MetricNames |-> <<>>],
   \* history: the number of collect calls made for the name
   total |-> [n \in MetricNames |-> 0]]

GatewayInit ==
  /\ phase = "construct"
  /\ redis = "null"
  /\ pingOk = FALSE
  /\ users = [i \in Ids |-> IF i = 1 THEN <<0>> ELSE <<>>]
  /\ orders = {1}
  /\ nextId = 2
  /\ clock = 0
  /\ cache = [k \in Keys |-> Nil]
  /\ req = [p \in Procs |-> Idle]
  /\ started = 0
  /\ health = [p \in Procs |-> HealthIdle]
  /\ metrics = NoMetrics

\* the server alone: no key derivation is looked at, no ApiClient exists
Init ==
  /\ GatewayInit
  /\ derive = Nil
  /\ client = Nil

\* new Redis(...) and the registration of the handlers; a throw goes to the catch
Construct ==
  /\ phase = "construct"
  /\ \E ok \in BOOLEAN :
       IF ok THEN redis' = "client" /\ phase' = "ping"
             ELSE redis' = "null" /\ phase' = "serving"
  /\ UNCHANGED <<pingOk, users, orders, nextId, clock, cache, req, started, others>>

\* (variant: the catch does not reset the handle)
PingKeepsHandle ==
  /\ phase = "ping"
  /\ \E ok \in BOOLEAN : pingOk' = ok
  /\ phase' = "serving"
  /\ UNCHANGED <<redis, users, orders, nextId, clock, cache, req, started, others>>

\* await redis.ping() settles; a rejection goes to the catch
Ping ==
  /\ phase = "ping"
  /\ \E ok \in BOOLEAN :
       IF ok THEN pingOk' = TRUE /\ UNCHANGED redis
             ELSE pingOk' = FALSE /\ redis' = "null"
  /\ phase' = "serving"
  /\ UNCHANGED <<users, orders, nextId, clock, cache, req, started, others>>

\* (variant: a later 'connect' event puts the client back into the handle)
ErrorEventOrReconnect ==
  /\ phase \in {"ping", "serving"}
  /\ redis' = IF redis = "client" THEN "null" ELSE "client"
  /\ UNCHANGED <<phase, pingOk, users, orders, nextId, clock, cache, req, started, others>>

\* redis.on('error'): the client emits an error
ErrorEvent ==
  /\ phase \in {"ping", "serving"}
  /\ redis = "client"
  /\ redis' = "null"
  /\ UNCHANGED <<phase, pingOk, users, orders, nextId, clock, cache, req, started, others>>

-----------------------------------------------------------------------------
(* Request slots *)
\* a new invocation takes the first slot that holds no handler in flight; the
\* responses already sent stay readable until the next invocation is accepted
Free(p) == ~InFlight(req[p]) /\ \A q \in Procs : q < p => InFlight(req[q])

OthersQuiet(p) == \A q \in Procs \ {p} : ~InFlight(req[q])

\* slot p takes r; the invocations it overlaps are no longer alone, and the
\* slots whose response has been sent are released
Accept(p, r) ==
  /\ req' = [q \in Procs |->
               IF q = p THEN [r EXCEPT !.solo = OthersQuiet(p)]
               ELSE IF InFlight(req[q]) THEN [req[q] EXCEPT !.solo = FALSE]
               ELSE Idle]
  /\ started' = started + 1

Update(p, r) == req' = [req EXCEPT ![p] = r]

Respond(r, code, res) == [r EXCEPT !.pc = "done", !.status = code, !.result = res]

\* a rejection leaves the handler: Fastify's error handler answers 500
Throw(r, msg) == Respond(r, 500, Err(msg))

\* a cache command rejects (backend error or timeout)
CacheThrow(r) == [Throw(r, "cache") EXCEPT !.fault = "cache"]

\* a method is called on the handle after an error event has set it to null
NullThrow(r) == [Throw(r, "TypeError") EXCEPT !.fault = "TypeError"]

-----------------------------------------------------------------------------
(* getCachedOrFetch *)

\* (variant: the null check on the handle is missing)
getCachedOrFetchEnterNoNullCheck(r) == [r EXCEPT !.pc = "get", !.nGet = 1]

\* entry of getCachedOrFetch, up to its first await
getCachedOrFetchEnter(r) ==
  IF redis = "null"
  THEN [r EXCEPT !.pc = "fetch", !.direct = TRUE, !.nFetch = 1]
  ELSE [r EXCEPT !.pc = "get", !.nGet = 1]

\* a GET route handler is invoked
StartRead(p, op, id) ==
  /\ phase = "serving"
  /\ Free(p)
  /\ started < MaxRequests
  /\ Accept(p, [getCachedOrFetchEnter(
         [Idle EXCEPT !.op = op, !.id = id, !.key = KeyOf(op, id), !.ttl = TtlOf(op)])
       EXCEPT !.startNull = (redis = "null")])
  /\ UNCHANGED <<phase, redis, pingOk, users, orders, nextId, clock, cache, others>>

\* (variant: the cached value is ignored and the fetcher runs on every call)
AfterGetIgnoresHit(r, cached) == [r EXCEPT !.pc = "fetch", !.nFetch = r.nFetch + 1]

\* the continuation after `await redis.get(cacheKey)`
AfterGet(r, cached) ==
  IF cached # Nil
  THEN Respond(r, 200, Ok(JSONparse(cached.val)))
  ELSE [r EXCEPT !.pc = "fetch", !.nFetch = r.nFetch + 1]

Lookup(cached) == IF cached = Nil THEN <<"miss">> ELSE <<"hit", cached.src>>

\* (variant: a rejected get is caught by the helper, which drops the handle)
GetReplyDropsHandle(p) ==
  /\ req[p].pc = "get"
  /\ \E ok \in BOOLEAN :
       IF ok
       THEN /\ Update(p, [AfterGet(req[p], cache[req[p].key])
                            EXCEPT !.seen = Lookup(cache[req[p].key])])
            /\ UNCHANGED redis
       ELSE /\ Update(p, CacheThrow(req[p]))
            /\ redis' = "null"
  /\ UNCHANGED <<phase, pingOk, users, orders, nextId, clock, cache, started, others>>

\* the continuation after `await redis.get(cacheKey)`, or after its rejection
GetReply(p) ==
  /\ req[p].pc = "get"
  /\ \E ok \in BOOLEAN :
       Update(p, IF ok THEN [AfterGet(req[p], cache[req[p].key])
                             EXCEPT !.seen = Lookup(cache[req[p].key])]
                       ELSE CacheThrow(req[p]))
  /\ UNCHANGED <<phase, redis, pingOk, users, orders, nextId, clock, cache, started, others>>

\* (variant: a failure of the fetcher is caught and stored like a result)
AfterFetchCachesFailure(r, out) ==
  LET f == [r EXCEPT !.fetched = out, !.fetchedAt = clock] IN
  IF r.direct THEN Respond(f, 200, out)
  ELSE IF redis = "null" THEN NullThrow(f)
  ELSE [f EXCEPT !.pc = "setex", !.data = out[2], !.nSet = r.nSet + 1]

\* (variant: the degraded path does not hand the fetcher's value back)
AfterFetchDirectDropsValue(r, out) ==
  LET f == [r EXCEPT !.fetched = out, !.fetchedAt = clock] IN
  IF IsErr(out) THEN Throw(f, out[2])
  ELSE IF r.direct THEN Respond(f, 200, None)
  ELSE IF redis = "null" THEN NullThrow(f)
  ELSE [f EXCEPT !.pc = "setex", !.data = out[2], !.nSet = r.nSet + 1]

\* the continuation after `await fetcher()`
AfterFetch(r, out) ==
  LET f == [r EXCEPT !.fetched = out, !.fetchedAt = clock] IN
  IF IsErr(out) THEN Throw(f, out[2])
  ELSE IF r.direct THEN Respond(f, 200, out)
  ELSE IF redis = "null" THEN NullThrow(f)
  ELSE [f EXCEPT !.pc = "setex", !.data = out[2], !.nSet = r.nSet + 1]

FetchReply(p) ==
  /\ req[p].pc = "fetch"
  /\ \E fail \in BOOLEAN :
       Update(p, AfterFetch(req[p],
                   IF fail THEN Err("store") ELSE Fetcher(req[p].op, req[p].id)))
  /\ UNCHANGED <<phase, redis, pingOk, users, orders, nextId, clock, cache, started, others>>

\* (variant: the ttl argument is dropped and the default is stored)
SetexDefaultTtl(c, r) ==
  [c EXCEPT ![r.key] =
     [val |-> JSONstringify(r.data), ttl |-> DefaultTtl, at |-> r.fetchedAt, src |-> r.data]]

\* (variant: the value is stored with SET, without an expiry)
SetexNoExpiry(c, r) ==
  [c EXCEPT ![r.key] =
     [val |-> JSONstringify(r.data), ttl |-> 0, at |-> r.fetchedAt, src |-> r.data]]

\* what SETEX key ttl value leaves in the backend
Setex(c, r) ==
  [c EXCEPT ![r.key] =
     [val |-> JSONstringify(r.data), ttl |-> r.ttl, at |-> r.fetchedAt, src |-> r.data]]

SetexReply(p) ==
  /\ req[p].pc = "setex"
  /\ \E ok \in BOOLEAN :
       IF ok
       THEN /\ cache' = Setex(cache, req[p])
            /\ Update(p, Respond(req[p], 200, Ok(req[p].data)))
       ELSE /\ cache' = cache
            /\ Update(p, CacheThrow(req[p]))
  /\ UNCHANGED <<phase, redis, pingOk, users, orders, nextId, clock, started, others>>

-----------------------------------------------------------------------------
(* invalidateCache and the write handlers *)

\* the body a successful write handler returns
ResponseOf(r) == IF r.op = "delete" THEN Ok(Nil) ELSE Ok(r.data)
CodeOf(r) == CASE r.op = "create" -> 201 [] r.op = "delete" -> 204 [] OTHER -> 200

\* (variant: the null check on the handle is missing)
invalidateCacheEnterNoNullCheck(r, pats) ==
  IF pats = <<>> THEN Respond([r EXCEPT !.inv = <<>>], CodeOf(r), ResponseOf(r))
  ELSE [r EXCEPT !.pc = "keys", !.inv = pats, !.nKeys = r.nKeys + 1]

\* the handler from its call invalidateCache(Head(pats)) on, up to the next
\* await: with the handle null every remaining call returns at once
invalidateCacheEnter(r, pats) ==
  IF pats = <<>> THEN Respond([r EXCEPT !.inv = <<>>], CodeOf(r), ResponseOf(r))
  ELSE IF redis = "null" THEN Respond([r EXCEPT !.inv = <<>>], CodeOf(r), ResponseOf(r))
  ELSE [r EXCEPT !.pc = "keys", !.inv = pats, !.nKeys = r.nKeys + 1]

\* the same, with the history of the call
Invalidate(r, pats) ==
  [invalidateCacheEnter(r, pats) EXCEPT
     !.nNull = r.nNull + (IF pats # <<>> /\ redis = "null" THEN 1 ELSE 0)]

\* a POST / PATCH / DELETE route handler is invoked and issues its store write
StartWrite(p, op, id) ==
  /\ phase = "serving"
  /\ Free(p)
  /\ started < MaxRequests
  /\ IF op = "create"
     THEN id = nextId /\ nextId <= MaxUsers /\ nextId' = nextId + 1
     ELSE nextId' = nextId
  /\ Accept(p, [Idle EXCEPT !.op = op, !.id = id, !.pc = "store"])
  /\ UNCHANGED <<phase, redis, pingOk, users, orders, clock, cache, others>>

\* the store after the write of handler r
StoreWrite(r) ==
  CASE r.op = "delete" -> [users EXCEPT ![r.id] = <<>>]
    [] OTHER -> [users EXCEPT ![r.id] = <<clock + 1>>]

\* update(...).eq('id', id).select().single() finds no row
NoRow(r) == r.op = "update" /\ users[r.id] = <<>>

\* (variant: the `if (error) throw` after the store write is missing)
StoreReplyIgnoresError(p) ==
  /\ req[p].pc = "store"
  /\ \E fail \in BOOLEAN :
       IF fail \/ NoRow(req[p])
       THEN /\ Update(p, Invalidate(req[p], PatternsOf(req[p].op, req[p].id)))
            /\ UNCHANGED <<users, orders, clock>>
       ELSE /\ users' = StoreWrite(req[p])
            /\ orders' = IF req[p].op = "delete" THEN orders \ {req[p].id} ELSE orders
            /\ clock' = clock + 1
            /\ Update(p, Invalidate(
                   [req[p] EXCEPT !.data = users'[req[p].id], !.commitAt = clock + 1],
                   PatternsOf(req[p].op, req[p].id)))
  /\ UNCHANGED <<phase, redis, pingOk, nextId, cache, started, others>>

\* (variant: a create or update also writes the new row through to the cache)
StoreReplyWriteThrough(p) ==
  /\ req[p].pc = "store"
  /\ \E fail \in BOOLEAN :
       IF fail \/ NoRow(req[p])
       THEN /\ Update(p, Throw(req[p], IF fail THEN "store" ELSE "no rows"))
            /\ UNCHANGED <<users, orders, clock, cache>>
       ELSE /\ users' = StoreWrite(req[p])
            /\ orders' = IF req[p].op = "delete" THEN orders \ {req[p].id} ELSE orders
            /\ clock' = clock + 1
            /\ cache' = IF req[p].op = "delete" \/ redis = "null" THEN cache
                        ELSE [cache EXCEPT ![UserKey(req[p].id)] =
                                [val |-> JSONstringify(users'[req[p].id]), ttl |-> DefaultTtl,
                                 at |-> clock + 1, src |-> users'[req[p].id]]]
            /\ Update(p, Invalidate(
                   [req[p] EXCEPT !.data = users'[req[p].id], !.commitAt = clock + 1],
                   PatternsOf(req[p].op, req[p].id)))
  /\ UNCHANGED <<phase, redis, pingOk, nextId, started, others>>

\* the continuation after the awaited store write
StoreReply(p) ==
  /\ req[p].pc = "store"
  /\ \E fail \in BOOLEAN :
       IF fail \/ NoRow(req[p])
       THEN /\ Update(p, Throw(req[p], IF fail THEN "store" ELSE "no rows"))
            /\ UNCHANGED <<users, orders, clock>>
       ELSE /\ users' = StoreWrite(req[p])
            /\ orders' = IF req[p].op = "delete" THEN orders \ {req[p].id} ELSE orders
            /\ clock' = clock + 1
            /\ Update(p, Invalidate(
                   [req[p] EXCEPT !.data = users'[req[p].id], !.commitAt = clock + 1],
                   PatternsOf(req[p].op, req[p].id)))
  /\ UNCHANGED <<phase, redis, pingOk, nextId, cache, started, others>>

\* KEYS pattern, answered from the backend as it is now
KeysMatching(pat) == {k \in Keys : cache[k] # Nil /\ Matches(pat, k)}

\* (variant: the `if (keys.length > 0)` around the delete is missing)
AfterKeysAlwaysDel(r, ks) ==
  IF redis = "null" THEN NullThrow(r)
  ELSE [r EXCEPT !.pc = "del", !.keys = ks, !.nDel = r.nDel + 1]

\* the continuation after `await redis.keys(pattern)`
AfterKeys(r, ks) ==
  IF ks = {} THEN Invalidate(r, Tail(r.inv))
  ELSE IF redis = "null" THEN NullThrow(r)
  ELSE [r EXCEPT !.pc = "del", !.keys = ks, !.nDel = r.nDel + 1]

KeysReply(p) ==
  /\ req[p].pc = "keys"
  /\ \E ok \in BOOLEAN :
       Update(p, IF ok THEN AfterKeys(req[p], KeysMatching(Head(req[p].inv)))
                       ELSE CacheThrow(req[p]))
  /\ UNCHANGED <<phase, redis, pingOk, users, orders, nextId, clock, cache, started, others>>

\* what DEL k1 k2 ... leaves in the backend
Del(c, ks) == [k \in Keys |-> IF k \in ks THEN Nil ELSE c[k]]

\* the continuation after `await redis.del(...keys)`
DelReply(p) ==
  /\ req[p].pc = "del"
  /\ \E ok \in BOOLEAN :
       IF ok
       THEN /\ cache' = Del(cache, req[p].keys)
            /\ Update(p, Invalidate([req[p] EXCEPT !.keys = {}], Tail(req[p].inv)))
       ELSE /\ cache' = cache
            /\ Update(p, CacheThrow(req[p]))
  /\ UNCHANGED <<phase, redis, pingOk, users, orders, nextId, clock, started, others>>

-----------------------------------------------------------------------------
\* the backend drops an entry whose ttl has run out
Expire(k) ==
  /\ cache[k] # Nil
  /\ cache[k].ttl > 0
  /\ cache' = [cache EXCEPT ![k] = Nil]
  /\ UNCHANGED <<phase, redis, pingOk, users, orders, nextId, clock, req, started, others>>

Next ==
  \/ Construct
  \/ Ping
  \/ ErrorEvent
  \/ \E p \in Procs : \E id \in Ids : StartRead(p, "getUser", id)
  \/ \E p \in Procs : StartRead(p, "listUsers", 0)
  \/ \E p \in Procs : StartRead(p, "listOrders", 0)
  \/ \E p \in Procs : GetReply(p)
  \/ \E p \in Procs : FetchReply(p)
  \/ \E p \in Procs : SetexReply(p)
  \/ \E p \in Procs : StartWrite(p, "create", nextId)
  \/ \E p \in Procs : \E id \in Ids : StartWrite(p, "update", id)
  \/ \E p \in Procs : \E id \in Ids : StartWrite(p, "delete", id)
  \/ \E p \in Procs : StoreReply(p)
  \/ \E p \in Procs : KeysReply(p)
  \/ \E p \in Procs : DelReply(p)
  \/ \E k \in Keys : Expire(k)

Spec == Init /\ [][Next]_vars

\* the gateway while the cache backend answers every command it is sent
Healthy == \A p \in Procs : req'[p].fault # "cache"

HealthyNext ==
  \/ Construct /\ Healthy
  \/ Ping /\ Healthy
  \/ ErrorEvent /\ Healthy
  \/ \E p \in Procs : \E id \in Ids : StartRead(p, "getUser", id) /\ Healthy
  \/ \E p \in Procs : StartRead(p, "listUsers", 0) /\ Healthy
  \/ \E p \in Procs : StartRead(p, "listOrders", 0) /\ Healthy
  \/ \E p \in Procs : GetReply(p) /\ Healthy
  \/ \E p \in Procs : FetchReply(p) /\ Healthy
  \/ \E p \in Procs : SetexReply(p) /\ Healthy
  \/ \E p \in Procs : StartWrite(p, "create", nextId) /\ Healthy
  \/ \E p \in Procs : \E id \in Ids : StartWrite(p, "update", id) /\ Healthy
  \/ \E p \in Procs : \E id \in Ids : StartWrite(p, "delete", id) /\ Healthy
  \/ \E p \in Procs : StoreReply(p) /\ Healthy
  \/ \E p \in Procs : KeysReply(p) /\ Healthy
  \/ \E p \in Procs : DelReply(p) /\ Healthy
  \/ \E k \in Keys : Expire(k) /\ Healthy

SpecHealthy == Init /\ [][HealthyNext]_vars

\* the gateway serving one request at a time
Serial == Cardinality({p \in Procs : InFlight(req'[p])}) <= 1

SerialNext ==
  \/ Construct /\ Serial
  \/ Ping /\ Serial
  \/ ErrorEvent /\ Serial
  \/ \E p \in Procs : \E id \in Ids : StartRead(p, "getUser", id) /\ Serial
  \/ \E p \in Procs : StartRead(p, "listUsers", 0) /\ Serial
  \/ \E p \in Procs : StartRead(p, "listOrders", 0) /\ Serial
  \/ \E p \in Procs : GetReply(p) /\ Serial
  \/ \E p \in Procs : FetchReply(p) /\ Serial
  \/ \E p \in Procs : SetexReply(p) /\ Serial
  \/ \E p \in Procs : StartWrite(p, "create", nextId) /\ Serial
  \/ \E p \in Procs : \E id \in Ids : StartWrite(p, "update", id) /\ Serial
  \/ \E p \in Procs : \E id \in Ids : StartWrite(p, "delete", id) /\ Serial
  \/ \E p \in Procs : StoreReply(p) /\ Serial
  \/ \E p \in Procs : KeysReply(p) /\ Serial
  \/ \E p \in Procs : DelReply(p) /\ Serial
  \/ \E k \in Keys : Expire(k) /\ Serial

\* ... over a backend that keeps its expiry promise: an entry stored with a
\* ttl does not stay for ever
Removed(k) == cache[k] # Nil /\ cache[k].ttl > 0 /\ cache' = [cache EXCEPT ![k] = Nil]
ExpiryFair == \A k \in Keys : WF_cache(Removed(k))
SpecExpiry == Init /\ [][SerialNext]_vars /\ ExpiryFair

\* ... with the cache connected throughout and every cache command answered
Sound == Serial /\ Healthy /\ redis' = "client"

SequentialNext ==
  \/ Construct /\ Sound
  \/ Ping /\ Sound
  \/ \E p \in Procs : \E id \in Ids : StartRead(p, "getUser", id) /\ Sound
  \/ \E p \in Procs : StartRead(p, "listUsers", 0) /\ Sound
  \/ \E p \in Procs : StartRead(p, "listOrders", 0) /\ Sound
  \/ \E p \in Procs : GetReply(p) /\ Sound
  \/ \E p \in Procs : FetchReply(p) /\ Sound
  \/ \E p \in Procs : SetexReply(p) /\ Sound
  \/ \E p \in Procs : StartWrite(p, "create", nextId) /\ Sound
  \/ \E p \in Procs : \E id \in Ids : StartWrite(p, "update", id) /\ Sound
  \/ \E p \in Procs : \E id \in Ids : StartWrite(p, "delete", id) /\ Sound
  \/ \E p \in Procs : StoreReply(p) /\ Sound
  \/ \E p \in Procs : KeysReply(p) /\ Sound
  \/ \E p \in Procs : DelReply(p) /\ Sound
  \/ \E k \in Keys : Expire(k) /\ Sound

SpecSequential == Init /\ [][SequentialNext]_vars

-----------------------------------------------------------------------------
(* GET /health *)

\* the body the probe returns
HealthBody(h) ==
  [status |-> "ok", services |-> [database |-> h.dbStatus, cache |-> h.cacheStatus]]

HealthRespond(h) == [h EXCEPT !.pc = "done", !.status = 200, !.body = HealthBody(h)]

\* the probe is invoked: dbStatus = 'ok', and the store is queried
HealthStart(p) ==
  /\ phase = "serving"
  /\ health[p].pc \in {"idle", "done"}
  /\ health' = [health EXCEPT ![p] = [HealthIdle EXCEPT !.pc = "db", !.dbStatus = "ok"]]
  /\ UNCHANGED <<gateway, derive, client, metrics>>

\* (variant: the probe pings without looking at the handle)
healthAfterDbNoNullCheck(h, ok) ==
  [h EXCEPT !.pc = "ping",
            !.dbStatus = IF ok THEN h.dbStatus ELSE "error",
            !.cacheStatus = "disabled"]

\* the continuation after the store query, up to the ping
healthAfterDb(h, ok) ==
  LET g == [h EXCEPT !.dbStatus = IF ok THEN h.dbStatus ELSE "error",
                     !.cacheStatus = "disabled"] IN
  IF redis = "null" THEN HealthRespond(g) ELSE [g EXCEPT !.pc = "ping"]

HealthDbReply(p) ==
  /\ health[p].pc = "db"
  /\ \E ok \in BOOLEAN :
       health' = [health EXCEPT ![p] = [healthAfterDb(health[p], ok) EXCEPT !.handle = redis]]
  /\ UNCHANGED <<gateway, derive, client, metrics>>

\* the continuation after `await redis.ping()`, or its catch
healthAfterPing(h, ok) ==
  HealthRespond([h EXCEPT !.cacheStatus = IF ok THEN "ok" ELSE "error"])

HealthPingReply(p) ==
  /\ health[p].pc = "ping"
  /\ \E ok \in BOOLEAN :
       health' = [health EXCEPT ![p] = [healthAfterPing(health[p], ok)
                                        EXCEPT !.pinged = IF ok THEN "ok" ELSE "fail"]]
  /\ UNCHANGED <<gateway, derive, client, metrics>>

\* the server answering health probes only
HealthNext ==
  \/ Construct
  \/ Ping
  \/ ErrorEvent
  \/ \E p \in Procs : HealthStart(p)
  \/ \E p \in Procs : HealthDbReply(p)
  \/ \E p \in Procs : HealthPingReply(p)

SpecHealth == Init /\ [][HealthNext]_vars

-----------------------------------------------------------------------------
(* Cache-key derivation of the GET handlers.  Strings are sequences of       *)
(* characters; an optional value is a sequence of zero or one value.         *)
MaxStrLen == 1
DefaultLimit == 20
DefaultOffset == 0
MinLimit == 1
MaxLimit == 100

Strings(chars, n) == UNION {[1..k -> chars] : k \in 0..n}
Opt(S) == {<<>>} \cup {<<x>> : x \in S}

\* values a client may send: any text for status and for a path id (the uuid
\* format of the schema admits fewer), numbers as decimal text
StatusTexts == Strings({"a", "\""}, MaxStrLen)
IdTexts == Strings({"s", ":"}, MaxStrLen) \ {<<>>}
UserIdTexts == {<<"a">>}
LimitTexts == {<<"2", "0">>, <<"5">>, <<"0", "5">>, <<"0">>}
OffsetTexts == {<<"0">>, <<"2">>}

OrderParams ==
  [user_id : Opt(UserIdTexts), status : Opt(StatusTexts),
   limit : Opt(LimitTexts), offset : Opt(OffsetTexts)]

Param(n, o) == IF Len(o) = 0 THEN <<>> ELSE <<[name |-> n, value |-> o[1]]>>

\* the query string of a request: its parameters in the order they were written
QueryString(ps) ==
  Param("user_id", ps.user_id) \o Param("status", ps.status)
    \o Param("limit", ps.limit) \o Param("offset", ps.offset)

Reverse(q) == [i \in 1..Len(q) |-> q[Len(q) + 1 - i]]

QueryStrings ==
  {QueryString(ps) : ps \in OrderParams} \cup {Reverse(QueryString(ps)) : ps \in OrderParams}

Requests ==
  {[cls |-> "users", id |-> <<>>, raw |-> <<>>]}
    \cup {[cls |-> "user", id |-> i, raw |-> <<>>] : i \in IdTexts}
    \cup {[cls |-> "orders", id |-> <<>>, raw |-> q] : q \in QueryStrings}

\* request.query: the value written for a parameter, if any
QueryValue(q, n) ==
  IF \E i \in 1..Len(q) : q[i].name = n
  THEN <<q[CHOOSE i \in 1..Len(q) : q[i].name = n].value>>
  ELSE <<>>

DigitValue(c) ==
  CASE c = "0" -> 0 [] c = "1" -> 1 [] c = "2" -> 2 [] c = "3" -> 3 [] c = "4" -> 4
    [] c = "5" -> 5 [] c = "6" -> 6 [] c = "7" -> 7 [] c = "8" -> 8 [] c = "9" -> 9

DigitChar(d) ==
  CASE d = 0 -> "0" [] d = 1 -> "1" [] d = 2 -> "2" [] d = 3 -> "3" [] d = 4 -> "4"
    [] d = 5 -> "5" [] d = 6 -> "6" [] d = 7 -> "7" [] d = 8 -> "8" [] d = 9 -> "9"

\* the schema's coercion of a query value to type number
RECURSIVE Number(_)
Number(t) ==
  IF Len(t) = 0 THEN 0
  ELSE Number(SubSeq(t, 1, Len(t) - 1)) * 10 + DigitValue(t[Len(t)])

\* a number the schema's default or the destructuring default has filled in
Defaulted(o, d) == IF Len(o) = 0 THEN d ELSE Number(o[1])

\* the handler's locals user_id, status, limit, offset
Destructure(q) ==
  [user_id |-> QueryValue(q, "user_id"),
   status |-> QueryValue(q, "status"),
   limit |-> Defaulted(QueryValue(q, "limit"), DefaultLimit),
   offset |-> Defaulted(QueryValue(q, "offset"), DefaultOffset)]

\* the querystring schema accepts the request
Valid(r) ==
  r.cls = "orders" =>
    LET l == Destructure(r.raw) IN
    l.limit >= MinLimit /\ l.limit <= MaxLimit /\ l.offset >= 0

\* JSON.stringify of a number, of a string, of the members of an object
RECURSIVE JSONnumber(_)
JSONnumber(n) ==
  IF n < 10 THEN <<DigitChar(n)>> ELSE JSONnumber(n \div 10) \o <<DigitChar(n % 10)>>

RECURSIVE Escape(_)
Escape(t) ==
  IF Len(t) = 0 THEN <<>>
  ELSE (IF Head(t) \in {"\"", "\\"} THEN <<"\\", Head(t)>> ELSE <<Head(t)>>)
         \o Escape(Tail(t))

JSONstring(t) == <<"\"">> \o Escape(t) \o <<"\"">>

Member(name, json) == <<"\"">> \o name \o <<"\"", ":">> \o json

RECURSIVE Join(_)
Join(ms) ==
  IF Len(ms) = 0 THEN <<>>
  ELSE IF Len(ms) = 1 THEN ms[1]
  ELSE ms[1] \o <<",">> \o Join(Tail(ms))

JSONobject(ms) == <<"{">> \o Join(ms) \o <<"}">>

\* a member whose value is undefined is left out
StringMember(name, o) ==
  IF Len(o) = 0 THEN <<>> ELSE <<Member(name, JSONstring(o[1]))>>

\* (variant: the key is built without the offset)
OrdersCacheKeyWithoutOffset(l) ==
  <<"o", "r", "d", "e", "r", "s", ":">>
    \o JSONobject(StringMember(<<"u", "s", "e", "r", "_", "i", "d">>, l.user_id)
                    \o StringMember(<<"s", "t", "a", "t", "u", "s">>, l.status)
                    \o <<Member(<<"l", "i", "m", "i", "t">>, JSONnumber(l.limit))>>)

\* `orders:${JSON.stringify({ user_id, status, limit, offset })}`
OrdersCacheKey(l) ==
  <<"o", "r", "d", "e", "r", "s", ":">>
    \o JSONobject(StringMember(<<"u", "s", "e", "r", "_", "i", "d">>, l.user_id)
                    \o StringMember(<<"s", "t", "a", "t", "u", "s">>, l.status)
                    \o <<Member(<<"l", "i", "m", "i", "t">>, JSONnumber(l.limit)),
                         Member(<<"o", "f", "f", "s", "e", "t">>, JSONnumber(l.offset))>>)

\* (variant: the orders key is the query string as it was written)
cacheKeyOfQueryString(r) ==
  CASE r.cls = "users" -> <<"u", "s", "e", "r", "s", ":", "a", "l", "l">>
    [] r.cls = "user" -> <<"u", "s", "e", "r", ":">> \o r.id
    [] r.cls = "orders" ->
         <<"o", "r", "d", "e", "r", "s", ":">>
           \o Join([i \in 1..Len(r.raw) |-> <<r.raw[i].name, "=">> \o r.raw[i].value])

\* the cache key a GET handler passes to getCachedOrFetch
cacheKey(r) ==
  CASE r.cls = "users" -> <<"u", "s", "e", "r", "s", ":", "a", "l", "l">>
    [] r.cls = "user" -> <<"u", "s", "e", "r", ":">> \o r.id
    [] r.cls = "orders" -> OrdersCacheKey(Destructure(r.raw))

Rejected == <<"400">>

KeyOrRejection(r) == IF Valid(r) THEN cacheKey(r) ELSE Rejected

\* two requests, not handled yet
KeyInit ==
  /\ GatewayInit
  /\ client = Nil
  /\ derive \in [a : Requests, b : Requests, ka : {Nil}, kb : {Nil}]

\* both requests are handled
DeriveKeys ==
  /\ derive.ka = Nil
  /\ derive' = [derive EXCEPT !.ka = KeyOrRejection(derive.a), !.kb = KeyOrRejection(derive.b)]
  /\ UNCHANGED <<gateway, health, client, metrics>>

KeyNext == DeriveKeys

SpecKeys == KeyInit /\ [][KeyNext]_vars

-----------------------------------------------------------------------------
(* The generated ApiClient: request() and fetchWithRetry *)
MaxRetries == 3
DefaultRetries == 3
DefaultRetryDelay == 1000
TestRetryDelay == 500

\* the configurations a caller may construct the client with
RetriesValues == {DefaultRetries} \cup 0..MaxRetries
RetryDelays == {DefaultRetryDelay, TestRetryDelay}

\* how a fetch() call settles: it rejects (network error, abort on timeout),
\* or resolves with a response that carries a status
Statuses == {200, 204, 404, 500}
Network == <<"reject", 0>>
Response(status) == <<"response", status>>
Outcomes == {Network} \cup {Response(s) : s \in Statuses}

\* response.ok: the status is in the range 200-299
ResponseOk(out) == out[1] = "response" /\ out[2] >= 200 /\ out[2] <= 299
Methods == {"GET", "POST", "PUT", "DELETE"}

\* the call rejects with the error of a fetch (Network) or with the error
\* `HTTP ${status}` request() makes of a response
Thrown(out, attempt) == <<"throw", out, attempt>>
Returned(attempt) == <<"return", <<"data", 0>>, attempt>>

ClientInit ==
  /\ GatewayInit
  /\ derive = Nil
  /\ client \in [retries : RetriesValues, retryDelay : RetryDelays, pc : {"idle"},
                 method : {"none"}, attempt : {0}, delay : {0}, result : {None},
                 \* history of the call
                 nFetch : {0},    \* fetch() calls issued
                 log : {<<>>},    \* how they settled
                 waited : {<<>>}] \* the delays slept between them

\* request(method, path): the first fetchWithRetry call, with attempt = 1
Request ==
  /\ client.pc = "idle"
  /\ \E m \in Methods :
       client' = [client EXCEPT !.pc = "fetch", !.method = m, !.attempt = 1, !.nFetch = 1]
  /\ UNCHANGED <<gateway, health, derive, metrics>>

\* what request() makes of the response fetchWithRetry returns
requestSettled(c, out) ==
  [c EXCEPT !.pc = "done",
            !.result = IF ResponseOk(out) THEN Returned(c.attempt) ELSE Thrown(out, c.attempt)]

\* (variant: the comparison with the configured retries is <= in both places)
fetchWithRetryOneMore(c, out) ==
  IF out = Network
  THEN IF c.attempt <= c.retries
       THEN [c EXCEPT !.pc = "delay", !.delay = c.retryDelay * c.attempt]
       ELSE [c EXCEPT !.pc = "done", !.result = Thrown(Network, c.attempt)]
  ELSE IF ~ResponseOk(out) /\ c.attempt <= c.retries
       THEN [c EXCEPT !.pc = "delay", !.delay = c.retryDelay * c.attempt]
       ELSE requestSettled(c, out)

\* (variant: a response that is not ok is retried for GET only)
fetchWithRetryGetOnly(c, out) ==
  IF out = Network
  THEN IF c.attempt < c.retries
       THEN [c EXCEPT !.pc = "delay", !.delay = c.retryDelay * c.attempt]
       ELSE [c EXCEPT !.pc = "done", !.result = Thrown(Network, c.attempt)]
  ELSE IF ~ResponseOk(out) /\ c.method = "GET" /\ c.attempt < c.retries
       THEN [c EXCEPT !.pc = "delay", !.delay = c.retryDelay * c.attempt]
       ELSE requestSettled(c, out)

\* fetchWithRetry from the settling of its fetch() on: the catch for a
\* rejection, the retry of a response that is not ok, or the return to request()
fetchWithRetry(c, out) ==
  IF out = Network
  THEN IF c.attempt < c.retries
       THEN [c EXCEPT !.pc = "delay", !.delay = c.retryDelay * c.attempt]
       ELSE [c EXCEPT !.pc = "done", !.result = Thrown(Network, c.attempt)]
  ELSE IF ~ResponseOk(out) /\ c.attempt < c.retries
       THEN [c EXCEPT !.pc = "delay", !.delay = c.retryDelay * c.attempt]
       ELSE requestSettled(c, out)

FetchSettles ==
  /\ client.pc = "fetch"
  /\ \E out \in Outcomes :
       client' = [fetchWithRetry(client, out) EXCEPT !.log = Append(client.log, out)]
  /\ UNCHANGED <<gateway, health, derive, metrics>>

\* the timer of delay() fires: fetchWithRetry(url, options, attempt + 1)
DelayElapses ==
  /\ client.pc = "delay"
  /\ client' = [client EXCEPT !.pc = "fetch", !.attempt = client.attempt + 1,
                              !.nFetch = client.nFetch + 1,
                              !.waited = Append(client.waited, client.delay)]
  /\ UNCHANGED <<gateway, health, derive, metrics>>

ClientNext == Request \/ FetchSettles \/ DelayElapses

\* one request() call of a client; every fetch settles (at the latest when the
\* timeout aborts it) and every timer fires
SpecClient == ClientInit /\ [][ClientNext]_vars /\ WF_vars(ClientNext)

-----------------------------------------------------------------------------
(* MonitoringService.collect *)
SeriesLimit == 1000
MaxCollects == 1002
MaxOther == 2

\* the values collected; the series are told apart by the order of collection
MetricValues == {1}

\* how many collect calls the model makes for a name
CollectsOf(name) == IF name = "http.request" THEN MaxCollects ELSE MaxOther

\* (variant: the newest entry is dropped instead of the oldest: pop for shift)
collectPop(m, name, value) ==
  LET metric == [name |-> name, value |-> value, seq |-> m.total[name] + 1]
      pushed == Append(m.series[name], metric)
  IN [series |-> [m.series EXCEPT ![name] =
                    IF Len(pushed) > SeriesLimit
                    THEN SubSeq(pushed, 1, Len(pushed) - 1) ELSE pushed],
      total |-> [m.total EXCEPT ![name] = m.total[name] + 1]]

\* collect(name, value): push the metric, then shift once if the series is
\* longer than 1000
collect(m, name, value) ==
  LET metric == [name |-> name, value |-> value, seq |-> m.total[name] + 1]
      pushed == Append(m.series[name], metric)
  IN [series |-> [m.series EXCEPT ![name] =
                    IF Len(pushed) > SeriesLimit THEN Tail(pushed) ELSE pushed],
      total |-> [m.total EXCEPT ![name] = m.total[name] + 1]]

Collect ==
  /\ \E name \in MetricNames : \E value \in MetricValues :
       /\ metrics.total[name] < CollectsOf(name)
       /\ metrics' = collect(metrics, name, value)
  /\ UNCHANGED <<gateway, health, derive, client>>

MonitorNext == Collect

\* the monitoring service alone
SpecMonitor == Init /\ [][MonitorNext]_vars

-----------------------------------------------------------------------------
(* Properties *)

Reads == {p \in Procs : req[p].op \in ReadOps}
Writes == {p \in Procs : req[p].op \in WriteOps}
Done(p) == req[p].pc = "done"
Success(p) == Done(p) /\ IsOk(req[p].result) /\ req[p].status \in {200, 201, 204}

RECURSIVE FetchCalls(_)
FetchCalls(S) ==
  IF S = {} THEN 0
  ELSE LET p == CHOOSE q \in S : TRUE IN req[p].nFetch + FetchCalls(S \ {p})

DisabledReads == {p \in Reads : req[p].startNull}
DisabledReadsOf(k) == {p \in DisabledReads : req[p].key = k}

\* C1: a getCachedOrFetch call entered while the handle is null invokes the
\* fetcher exactly once, issues no cache get and no cache set, and answers with
\* what the fetcher returned or threw; the calls for one key that are present
\* together have invoked the fetcher once each (N calls, N fetches).
C1_DisabledReadBypassesCache ==
  /\ \A p \in DisabledReads :
       /\ req[p].nFetch = 1
       /\ req[p].nGet = 0
       /\ req[p].nSet = 0
       /\ Done(p) => req[p].result = req[p].fetched
  /\ \A k \in Keys : FetchCalls(DisabledReadsOf(k)) = Cardinality(DisabledReadsOf(k))

\* two overlapping calls for the same key, both entered with the handle null,
\* have both answered with their own fetch
C1_Witness ==
  \E p, q \in DisabledReads :
    /\ p # q
    /\ req[p].key = req[q].key
    /\ ~req[p].solo /\ ~req[q].solo
    /\ Success(p) /\ Success(q)
    /\ req[p].nFetch + req[q].nFetch = 2

\* C2: a getCachedOrFetch call whose lookup finds the key populated answers
\* with the stored payload, which is the payload that was fetched and stored,
\* and does not invoke the fetcher (nor store anything).
C2_HitReturnsStoredPayload ==
  \A p \in Reads :
    req[p].seen[1] = "hit" =>
      /\ Success(p)
      /\ req[p].result = Ok(req[p].seen[2])
      /\ req[p].nFetch = 0
      /\ req[p].nSet = 0

C2_Witness ==
  \E p \in Reads :
    /\ req[p].seen[1] = "hit"
    /\ Success(p)
    /\ req[p].result = Ok(req[p].seen[2])
    /\ req[p].nFetch = 0

\* C3: when the fetcher fails, the call ends at once with that same error and
\* has issued no cache store, so the key's entry is neither created nor
\* changed by it and a later call for the key has to fetch again.
C3_FetchFailureNotCached ==
  \A p \in Reads :
    IsErr(req[p].fetched) =>
      /\ Done(p)
      /\ req[p].result = req[p].fetched
      /\ req[p].status = 500
      /\ req[p].nSet = 0

\* a lookup of a user id that has no row, with the cache connected: a miss,
\* then the failing fetch
C3_Witness ==
  \E p \in Reads :
    /\ req[p].op = "getUser"
    /\ req[p].seen = <<"miss">>
    /\ req[p].fetched = Err("no rows")
    /\ req[p].result = Err("no rows")
    /\ cache[req[p].key] = Nil

MissStored(p) ==
  /\ req[p].pc = "setex"
  /\ req'[p].pc = "done"
  /\ req'[p].fault = "none"

\* C4: on a miss, with the handle set and the backend answering, a successful
\* fetch is stored once under the key of the request with the ttl of the
\* request (no other key changes) and the same result is returned.
C4_MissStoresUnderKeyWithTtl ==
  /\ [](\A p \in Reads :
          (req[p].seen = <<"miss">> /\ IsOk(req[p].fetched) /\ Done(p)
             /\ req[p].fault = "none") =>
            /\ req[p].nSet = 1
            /\ req[p].nFetch = 1
            /\ req[p].result = req[p].fetched
            /\ req[p].status = 200)
  /\ [][\A p \in Reads :
          MissStored(p) =>
            /\ \A k \in Keys \ {KeyOf(req[p].op, req[p].id)} : cache'[k] = cache[k]
            /\ cache'[KeyOf(req[p].op, req[p].id)].val = JSONstringify(req[p].fetched[2])
            /\ cache'[KeyOf(req[p].op, req[p].id)].ttl = TtlOf(req[p].op)
            /\ req'[p].result = req[p].fetched]_vars

\* an orders list was stored with its 60 s ttl and returned
C4_Witness ==
  \E p \in Reads :
    /\ req[p].op = "listOrders"
    /\ req[p].seen = <<"miss">>
    /\ Success(p)
    /\ req[p].nSet = 1
    /\ cache[req[p].key] # Nil
    /\ cache[req[p].key].ttl = OrdersTtl
    /\ Ok(JSONparse(cache[req[p].key].val)) = req[p].result

\* C5: a user write that succeeded with the handle set throughout, every
\* cache command answered and no other invocation in flight leaves no entry
\* under user:{id} and none under users:all, so the next call for either key
\* misses and fetches the store as the write left it.
C5_WriteLeavesNoEntry ==
  \A p \in Writes :
    (Success(p) /\ req[p].solo /\ req[p].nNull = 0 /\ req[p].fault = "none") =>
      /\ cache[UserKey(req[p].id)] = Nil
      /\ cache[UsersAllKey] = Nil

\* an update that found both the user's entry and the list cached, and
\* deleted them
C5_Witness ==
  \E p \in Writes :
    /\ req[p].op = "update"
    /\ Success(p) /\ req[p].solo /\ req[p].nNull = 0
    /\ req[p].nDel >= 1
    /\ cache[UserKey(req[p].id)] = Nil
    /\ cache[UsersAllKey] = Nil

UserClass(p) == {UserKey(req[p].id), UsersAllKey}

\* C6: with the handle set and every cache command answered, once a write
\* handler has returned success the cache holds no entry of the written user
\* or of the users list whose value was fetched before the write committed.
C6_NoEntryOlderThanWrite ==
  \A p \in Writes :
    (Success(p) /\ redis = "client" /\ req[p].nNull = 0) =>
      \A k \in UserClass(p) : cache[k] # Nil => cache[k].at >= req[p].commitAt

\* C7: a write whose store operation committed and whose invalidation then
\* hit a failing cache command still reports success.
C7_WriteSucceedsWhenInvalidationFails ==
  \A p \in Writes :
    (Done(p) /\ req[p].commitAt > 0 /\ req[p].fault = "cache") => Success(p)

\* C8: a read answers with an error only when its fetcher failed: a failing
\* cache lookup or cache store does not fail the read.
C8_ReadFailsOnlyWhenFetchFails ==
  \A p \in Reads :
    (Done(p) /\ IsErr(req[p].result)) => IsErr(req[p].fetched)

\* C9: an invalidateCache call entered while the handle is null issues no key
\* enumeration and no delete, leaves the cache as it is and returns normally
\* (the handler goes on to its success response).  The step in which the call
\* is entered may be the one that receives the reply of the DEL the previous
\* call had sent: only the keys of that DEL may go.
C9_DisabledInvalidateIsNoOp ==
  [][\A p \in Writes :
       (req'[p].op = req[p].op /\ req'[p].nNull > req[p].nNull) =>
         /\ \A k \in Keys \ req[p].keys : cache'[k] = cache[k]
         /\ req'[p].nKeys = req[p].nKeys
         /\ req'[p].nDel = req[p].nDel
         /\ req'[p].fault = "none"
         /\ req'[p].pc = "done"
         /\ IsOk(req'[p].result)]_vars

\* a committed update answered 200 although no cache command was issued
C9_Witness ==
  \E p \in Writes :
    /\ req[p].op = "update"
    /\ req[p].nNull = 1
    /\ req[p].nKeys = 0 /\ req[p].nDel = 0
    /\ Success(p)
    /\ req[p].commitAt > 0

StartupFailed == phase = "serving" /\ ~pingOk

\* C10: no request is accepted before the startup code has settled the
\* handle; the handle is set while requests are served only if the startup
\* ping resolved; and if the construction or the ping failed the handle is
\* null, every getCachedOrFetch call goes straight to its fetcher and no
\* invalidateCache call issues a cache command.
C10_StartupProbeDecides ==
  /\ phase # "serving" => started = 0 /\ \A p \in Procs : req[p] = Idle
  /\ (phase = "serving" /\ redis = "client") => pingOk
  /\ StartupFailed =>
       /\ redis = "null"
       /\ \A p \in Reads : req[p].startNull /\ req[p].nFetch = 1 /\ req[p].nGet = 0
                             /\ req[p].nSet = 0
       /\ \A p \in Writes : req[p].nKeys = 0 /\ req[p].nDel = 0
                             /\ (req[p].commitAt > 0 => Success(p) /\ req[p].nNull = 1)

\* after a failed startup a read has been served by its fetcher and a
\* committed write has skipped its invalidation
C10_Witness ==
  /\ StartupFailed
  /\ \E p \in Reads : Success(p) /\ req[p].nFetch = 1
  /\ \E p \in Writes : Success(p) /\ req[p].nNull = 1

\* the connection states of the cache layer, read off the startup code's
\* position and the handle
Connected == phase = "serving" /\ redis = "client"
Disabled == phase # "construct" /\ redis = "null"

\* C11: an error event, during startup or while serving, sets the handle to
\* null; once the handle is null after construction no step sets it again;
\* and every getCachedOrFetch call entered from then on goes straight to its
\* fetcher, with no cache command.
C11_ErrorDisablesForGood ==
  /\ [][(phase' = phase /\ redis' # redis) => Disabled']_vars
  /\ [][Disabled => Disabled']_vars
  /\ [](\A p \in Reads :
          req[p].startNull => req[p].direct /\ req[p].nGet = 0 /\ req[p].nSet = 0)

\* the startup ping had resolved, an error event came later, and a read
\* entered after it was served by its fetcher
C11_Witness ==
  /\ pingOk
  /\ Disabled
  /\ \E p \in Reads : req[p].startNull /\ Success(p) /\ req[p].nGet = 0

\* C12 (as claimed): once the handle is set and requests are served, no step
\* takes the connection out of that state.
C12_ConnectedIsTerminal ==
  [][Connected => Connected']_vars

\* C12 (amended): the only step that takes the connection out of Connected
\* sets the handle to null and touches nothing else (the error handler); no
\* continuation of a request handler changes the handle, and Connected is
\* never left for a state other than Disabled.
C12_ConnectedLeftOnlyByError ==
  [][(Connected /\ ~Connected') =>
       /\ Disabled'
       /\ UNCHANGED <<phase, pingOk, users, orders, nextId, clock, cache, req, started>>]_vars

\* a read that was entered while Connected is still waiting for its lookup
\* when the connection has become Disabled
C12_Witness ==
  /\ pingOk
  /\ Disabled
  /\ \E p \in Reads : ~req[p].startNull /\ req[p].pc = "get"

\* two outcomes are the same outcome
Same(a, b) == a[1] = b[1] /\ a[2] = b[2]

\* the answer of read p is what the store holds now, or the store's failure
StoreAnswer(p) ==
  \/ Same(req[p].result, Fetcher(req[p].op, req[p].id))
  \/ Same(req[p].result, Err("store"))

\* C13: a read served with the cache disabled answers with the outcome of its
\* fetcher, which is the value the store held when it was read (the store's
\* current value as long as nothing has committed since); a write whose
\* invalidation issued no cache command answers with the store's result:
\* success with the written row if it committed, the store's error if not.
\* A read of a connected cache that misses answers with its fetcher's outcome
\* in the same way.
C13_DegradedModeTransparent ==
  /\ \A p \in Reads :
       (Done(p) /\ req[p].startNull) =>
         /\ Same(req[p].result, req[p].fetched)
         /\ req[p].fetchedAt = clock => StoreAnswer(p)
  /\ \A p \in Writes :
       (Done(p) /\ req[p].nKeys = 0) =>
         /\ req[p].fault = "none"
         /\ req[p].commitAt > 0 => Success(p) /\ req[p].result = ResponseOf(req[p])
         /\ req[p].commitAt = 0 => IsErr(req[p].result)
  /\ \A p \in Reads :
       (Done(p) /\ req[p].seen = <<"miss">> /\ req[p].fault = "none") =>
         Same(req[p].result, req[p].fetched)

\* after a failed startup a write committed and a read that followed it was
\* answered with the store as the write left it
C13_Witness ==
  /\ StartupFailed
  /\ clock >= 1
  /\ \E p \in Reads :
       /\ req[p].startNull /\ Success(p)
       /\ req[p].fetchedAt = clock
       /\ Same(req[p].result, Fetcher(req[p].op, req[p].id))

\* the cache commands write p has issued so far, and the calls it has skipped
Issued(p) == req[p].nKeys + req[p].nDel
Entered(p) == req[p].nKeys + req[p].nNull

\* C16: a write handler enters invalidateCache only after its store write
\* has committed; when it answers success no enumeration or delete of its
\* invalidation is outstanding and every pattern of the handler has been
\* enumerated (or skipped on a null handle); when the store write fails the
\* handler answers with the store's error and has issued no cache command.
C16_InvalidateAfterCommitBeforeReply ==
  \A p \in Writes :
    /\ Entered(p) + Issued(p) > 0 => req[p].commitAt > 0
    /\ req[p].pc \in {"keys", "del"} => req[p].commitAt > 0
    /\ Success(p) =>
         /\ req[p].commitAt > 0
         /\ req[p].inv = <<>> /\ req[p].keys = {}
         /\ Entered(p) >= 1
         /\ req[p].nNull = 0 => req[p].nKeys = Len(PatternsOf(req[p].op, req[p].id))
    /\ (Done(p) /\ req[p].commitAt = 0) =>
         /\ IsErr(req[p].result)
         /\ req[p].result[2] \in {"store", "no rows"}
         /\ req[p].status = 500
         /\ Issued(p) = 0

\* a store write that failed while the user's entry and the list were cached:
\* the handler answered 500 and both entries are still there
C16_WitnessStoreFailure ==
  \E p \in Writes :
    /\ Done(p) /\ req[p].commitAt = 0
    /\ req[p].result = Err("store")
    /\ redis = "client"
    /\ cache[UsersAllKey] # Nil

\* the key of an update is deleted before the handler answers
C16_Witness ==
  \E p \in Writes :
    /\ req[p].op = "update" /\ Success(p)
    /\ req[p].nDel >= 1 /\ req[p].nKeys = 2

\* write p deleted a row that was there: user 1 is in the table from the start
\* and p's write is the first one the store committed
DeletedExisting(p) == req[p].op = "delete" /\ req[p].id = 1 /\ req[p].commitAt = 1

\* C18: a successful delete of an existing user answers with a body whose
\* data.deleted is true.
C18_DeleteReportsDeleted ==
  \A p \in Writes :
    (DeletedExisting(p) /\ Success(p)) =>
      req[p].result[2] # Nil /\ req[p].result[2].deleted

\* C20: an invocation that was in flight when an error event set the handle
\* to null, and whose cache commands were all answered, still completes: a
\* read that fetched answers with its fetcher's outcome, and a write whose
\* store operation committed reports success.
C20_InFlightSurvivesDisable ==
  /\ \A p \in Reads :
       (Done(p) /\ ~req[p].startNull /\ Disabled /\ req[p].fault # "cache"
          /\ req[p].nFetch = 1) =>
         Same(req[p].result, req[p].fetched)
  /\ \A p \in Writes :
       (Done(p) /\ req[p].commitAt > 0 /\ Disabled /\ req[p].fault # "cache") =>
         Success(p)

Probed == {p \in Procs : health[p].pc = "done"}

Asked(q, n) == {q[i].value : i \in {j \in 1..Len(q) : q[j].name = n}}
AskedNumber(q, n, d) == IF Asked(q, n) = {} THEN {d} ELSE {Number(t) : t \in Asked(q, n)}

Logical(r) ==
  [cls |-> r.cls, id |-> r.id,
   user_id |-> Asked(r.raw, "user_id"),
   status |-> Asked(r.raw, "status"),
   limit |-> IF r.cls = "orders" THEN AskedNumber(r.raw, "limit", DefaultLimit) ELSE {},
   offset |-> IF r.cls = "orders" THEN AskedNumber(r.raw, "offset", DefaultOffset) ELSE {}]

BothDerived == derive.ka \notin {Nil, Rejected} /\ derive.kb \notin {Nil, Rejected}

\* C14: two requests that ask for the same thing (same class and id, same
\* user_id, status, limit and offset once the defaults are applied, whatever
\* the order and the spelling of the parameters) are given the same cache key.
C14_EquivalentRequestsSameKey ==
  (BothDerived /\ Logical(derive.a) = Logical(derive.b)) => derive.ka = derive.kb

\* the same orders query written in two ways: parameters in a different order,
\* the default limit written out in one and left out in the other
C14_Witness ==
  /\ BothDerived
  /\ derive.a.raw # derive.b.raw
  /\ Len(derive.a.raw) > Len(derive.b.raw)
  /\ Len(derive.b.raw) >= 2
  /\ derive.b.raw[1].name = "offset"
  /\ derive.a.raw[1].name = "user_id"
  /\ Logical(derive.a) = Logical(derive.b)
  /\ derive.ka = derive.kb

\* C15: two requests that ask for different things (another class, another
\* id, another filter or pagination value) are given different cache keys.
C15_DifferentRequestsDifferentKeys ==
  (BothDerived /\ Logical(derive.a) # Logical(derive.b)) => derive.ka # derive.kb

\* two orders queries that differ in the offset only have different keys
C15_Witness ==
  /\ BothDerived
  /\ derive.a.cls = "orders" /\ derive.b.cls = "orders"
  /\ Logical(derive.a).offset # Logical(derive.b).offset
  /\ Logical(derive.a).limit = Logical(derive.b).limit
  /\ Logical(derive.a).status = Logical(derive.b).status
  /\ Logical(derive.a).user_id = Logical(derive.b).user_id
  /\ derive.ka # derive.kb

AllNetwork == \A i \in 1..Len(client.log) : client.log[i] = Network
MaxAttempts == IF client.retries > 1 THEN client.retries ELSE 1
LastErrorThrown == client.result = Thrown(Network, client.nFetch)

\* C19 (as claimed): a request() call never issues more than `retries`
\* fetches, and when every fetch fails with a network error it ends after
\* exactly `retries` fetches, at least one, throwing the last error.
C19_ExactlyRetriesAttempts ==
  /\ client.nFetch <= client.retries
  /\ (client.pc = "done" /\ AllNetwork) =>
       client.nFetch = client.retries /\ client.nFetch >= 1 /\ LastErrorThrown

\* C19 (amended): a request() call ends; it never issues more than
\* max(1, retries) fetches, and when every fetch fails with a network error it
\* ends after exactly max(1, retries) fetches, throwing the error of the last.
C19_RetryLoopTerminates ==
  /\ [](client.nFetch <= MaxAttempts)
  /\ []((client.pc = "done" /\ AllNetwork) =>
          client.nFetch = MaxAttempts /\ LastErrorThrown)
  /\ <>(client.pc = "done")

\* with the default configuration three fetches failed and the third error
\* was thrown
C19_Witness ==
  /\ client.retries = DefaultRetries
  /\ client.pc = "done"
  /\ AllNetwork
  /\ client.log = <<Network, Network, Network>>
  /\ client.result = Thrown(Network, DefaultRetries)

\* C21: no SETEX is applied to a key that holds a live entry: an entry is
\* never overwritten and its ttl never restarted, in any interleaving.
C21_NoOverwriteOfLiveEntry ==
  [][\A p \in Reads : MissStored(p) => cache[req[p].key] = Nil]_vars

\* C22: an entry of a listing query (users list, orders list) is stored with
\* the short ttl of 60 s, an entry of a lookup by id with the ttl of 300 s.
C22_TtlByOperationClass ==
  \A k \in Keys :
    cache[k] # Nil =>
      cache[k].ttl = (IF k[1] = "user" THEN DefaultTtl ELSE OrdersTtl)

\* C26: once the connection is Disabled the backend holds no entry.
C26_NoEntryOutlivesConnection ==
  Disabled => \A k \in Keys : cache[k] = Nil

\* the handler in slot p takes a step
Stepped(p) == req'[p].pc # req[p].pc \/ req'[p].nKeys # req[p].nKeys

Stale(k) ==
  /\ cache[k] # Nil
  /\ \E p \in Writes : Success(p) /\ k \in UserClass(p) /\ cache[k].at < req[p].commitAt

\* C24: every entry is stored with a finite positive ttl, so every entry,
\* stale or not, is removed in the end (by expiry if nothing deletes it), and
\* a read that then finds the key absent invokes its fetcher.
C24_StalenessBoundedByTtl ==
  /\ [](\A k \in Keys : cache[k] # Nil => cache[k].ttl \in {DefaultTtl, OrdersTtl})
  /\ [](DefaultTtl > 0 /\ OrdersTtl > 0)
  /\ \A k \in Keys : (cache[k] # Nil) ~> (cache[k] = Nil)
  /\ [](\A p \in Reads : req[p].seen = <<"miss">> => req[p].nFetch = 1)

\* a write that committed after the handle was set to null has skipped its
\* invalidation and answered success next to the entry it made stale
C24_Witness ==
  \E k \in Keys :
    /\ Stale(k)
    /\ cache[k].ttl = DefaultTtl
    /\ \E p \in Writes : Success(p) /\ req[p].nNull >= 1 /\ k \in UserClass(p)

\* C25: a cache entry appears or changes only in the setex step of a read
\* handler whose lookup missed and whose fetcher succeeded, and it then holds
\* the serialised result of that fetch under the key of that read; a write
\* handler (create, update, delete) never issues a setex.
C25_EntriesOnlyFromMissAndFetch ==
  /\ [](\A p \in Writes : req[p].nSet = 0 /\ req[p].pc # "setex")
  /\ [][\/ cache' = cache
        \/ \A k \in Keys :
             \/ cache'[k] = cache[k]
             \/ cache'[k] = Nil
             \/ \E p \in Reads :
                  /\ MissStored(p)
                  /\ req[p].key = k
                  /\ req[p].seen = <<"miss">>
                  /\ IsOk(req[p].fetched)
                  /\ JSONparse(cache'[k].val) = req[p].fetched[2]]_vars

C25_Witness ==
  \E p \in Reads :
    /\ Done(p)
    /\ req[p].seen = <<"miss">>
    /\ IsOk(req[p].fetched)
    /\ cache[req[p].key] # Nil
    /\ JSONparse(cache[req[p].key].val) = req[p].fetched[2]
    /\ \E w \in Writes : Success(w) /\ req[w].commitAt > req[p].fetchedAt


\* no invocation is in flight
Quiet == \A p \in Procs : ~InFlight(req[p])

\* the cached value under k is what the fetcher of read op returns now
Coherent(k, op, id) ==
  cache[k] # Nil =>
    /\ IsOk(Fetcher(op, id))
    /\ JSONparse(cache[k].val) = Fetcher(op, id)[2]

\* C27: when requests are served one after the other, the cache stays
\* connected and every cache command is answered, then between requests each
\* cached user:{id} entry and the users:all entry equal what their fetcher
\* would return from the store now, whether or not any entry has expired.
C27_SequentialCoherence ==
  Quiet =>
    /\ Coherent(UsersAllKey, "listUsers", 0)
    /\ \A id \in Ids : Coherent(UserKey(id), "getUser", id)

C27_Witness ==
  /\ Quiet
  /\ redis = "client"
  /\ \E p \in Reads :
       /\ Success(p)
       /\ req[p].op \in {"listUsers", "getUser"}
       /\ req[p].seen = <<"miss">>
       /\ req[p].fetchedAt > 0
       /\ cache[req[p].key] # Nil
       /\ JSONparse(cache[req[p].key].val) = Fetcher(req[p].op, req[p].id)[2]

OrdersKeys == {k \in Keys : k[1] = "orders"}

\* C28: no handler passes a pattern of the orders class to invalidateCache
\* nor names an orders key in a DEL, and a cached orders list goes away only
\* in a step of the backend's expiry, in which no handler moves; this also
\* holds after a user delete that removed that user's orders from the store.
C28_OrdersNeverInvalidated ==
  /\ [](\A p \in Procs :
          /\ req[p].keys \cap OrdersKeys = {}
          /\ \A i \in 1..Len(req[p].inv) : req[p].inv[i].cls # "orders")
  /\ [][\/ cache' = cache
        \/ \A k \in OrdersKeys :
             (cache[k] # Nil /\ cache'[k] = Nil) =>
               /\ req' = req
               /\ cache[k].ttl > 0
               /\ cache' = [cache EXCEPT ![k] = Nil]]_vars

C28_Witness ==
  \E w \in Writes :
    /\ req[w].op = "delete"
    /\ Success(w)
    /\ req[w].nKeys = 2
    /\ req[w].id \notin orders
    /\ \E k \in OrdersKeys :
         /\ cache[k] # Nil
         /\ req[w].id \in JSONparse(cache[k].val).data


\* the i-th fetch of the call resolved with a response that is not ok
NotOkAt(i) == client.log[i] # Network /\ ~ResponseOk(client.log[i])
\* the i-th fetch has been followed by a wait of retryDelay * i and a re-send
ResentAfter(i) ==
  \/ client.nFetch > i /\ client.waited[i] = client.retryDelay * i
  \/ client.nFetch = i /\ client.pc = "delay" /\ client.delay = client.retryDelay * i

\* C29: in a request() call of any method, a response that is not ok on an
\* attempt below `retries` is followed, whatever its status, by a wait of
\* retryDelay * attempt and then by the same request again; a response that is
\* ok ends the loop with that attempt; a response that is not ok on the last
\* attempt ends the call with the HTTP error of that response.
C29_NotOkRetriedWhateverMethod ==
  /\ [](\A i \in 1..Len(client.log) :
          /\ (NotOkAt(i) /\ i < client.retries) => ResentAfter(i)
          /\ (NotOkAt(i) /\ i >= client.retries) =>
                /\ client.pc = "done" /\ client.nFetch = i
                /\ client.result = Thrown(client.log[i], i)
          /\ ResponseOk(client.log[i]) =>
                /\ client.pc = "done" /\ client.nFetch = i
                /\ client.result = Returned(i))
  /\ [][client.pc = "delay" =>
          /\ client'.pc = "fetch"
          /\ client'.method = client.method
          /\ client'.attempt = client.attempt + 1
          /\ client'.nFetch = client.nFetch + 1]_vars
  /\ (client.pc = "delay") ~> (client.pc = "fetch")

\* a POST answered 500, 404 and 500 was sent three times, after waits of
\* retryDelay and 2 * retryDelay, and ended with the error of the last response
C29_Witness ==
  /\ client.method = "POST"
  /\ client.retries = DefaultRetries
  /\ client.retryDelay = DefaultRetryDelay
  /\ client.log = <<Response(500), Response(404), Response(500)>>
  /\ client.waited = <<DefaultRetryDelay, 2 * DefaultRetryDelay>>
  /\ client.nFetch = 3
  /\ client.result = Thrown(Response(500), 3)


\* C30: after any sequence of collect calls the series of each metric name
\* holds at most 1000 entries: exactly the last min(1000, number of calls)
\* metrics collected under that name, oldest first.
C30_SeriesKeepsLastThousand ==
  \A n \in MetricNames :
    LET series == metrics.series[n]
        total == metrics.total[n] IN
    /\ Len(series) <= SeriesLimit
    /\ Len(series) = (IF total < SeriesLimit THEN total ELSE SeriesLimit)
    /\ \A k \in 1..Len(series) :
         /\ series[k].name = n
         /\ series[k].seq = total - Len(series) + k

\* two entries have been evicted from one series while the other is short
C30_Witness ==
  /\ metrics.total["http.request"] = SeriesLimit + 2
  /\ Len(metrics.series["http.request"]) = SeriesLimit
  /\ metrics.series["http.request"][1].seq = 3
  /\ metrics.series["http.request"][SeriesLimit].seq = SeriesLimit + 2
  /\ Len(metrics.series["http.response_time"]) = 2


====
